---- MODULE Spec2Model ----
(***************************************************************************)
(* A model of the CSV -> product transform of create-shopify-products:     *)
(* ColumnMapper.detect_csv_structure (scripts/column_mapper.py),           *)
(* clean_and_format_data (scripts/utils.py) and CSVProcessor               *)
(* (scripts/csv_processor.py), and of the loop of main (main.py) with      *)
(* ShopifyImporter.import_products (scripts/shopify_importer.py).          *)
(*                                                                         *)
(* Specifications: Spec (one call of process_csv_file), SpecMapper,        *)
(* SpecVariants and SpecPricing (direct calls of detect_csv_structure and  *)
(* parse_variants_from_row), SpecMain (main over a list of files).         *)
(*                                                                         *)
(* Text is a sequence of one-character strings, so that strip, split,      *)
(* startswith, isdigit, int() and sorted() are computed and not assumed.   *)
(* Column headers are only ever compared for equality by the code and are  *)
(* kept as plain strings.                                                  *)
(***************************************************************************)
EXTENDS Integers, Sequences, FiniteSets, TLC

(***************************************************************************)
(* Bounds of the model.                                                    *)
(***************************************************************************)
\* the CSV files of the pipeline specification have 0..MaxRows data rows
MaxRows == 2
\* the header lists given to the column mapper have 0..MaxCols columns
MaxCols == 3
\* main is given 1..MaxFiles files
MaxFiles == 3

(***************************************************************************)
(* Python text primitives.                                                 *)
(***************************************************************************)
\* the characters of the model in code point order (what str comparison uses)
Chars ==
  << " ", "#", "'", ",", "-", ".", "/",
     "0", "1", "2", "3", "4", "5", "6", "7", "8", "9",
     "A", "B", "C", "E", "F", "G", "L", "M", "N", "O", "R", "S", "T", "U",
     "X", "Y", "Z", "_",
     "a", "b", "c", "e", "f", "g", "l", "m", "n", "o", "r", "s", "t", "u",
     "x", "y", "z" >>

Ord(c) == CHOOSE i \in 1..Len(Chars) : Chars[i] = c

Digits == <<"0", "1", "2", "3", "4", "5", "6", "7", "8", "9">>

IsDigit(c) == \E i \in 1..10 : Digits[i] = c

DigitVal(c) == (CHOOSE i \in 1..10 : Digits[i] = c) - 1

\* str.strip(): the code only meets blanks as whitespace
strip(s) ==
  LET keep == {i \in 1..Len(s) : s[i] # " "}
  IN  IF keep = {} THEN <<>>
      ELSE SubSeq(s, CHOOSE i \in keep : \A j \in keep : i <= j,
                     CHOOSE i \in keep : \A j \in keep : i >= j)

\* str.startswith(p)
startswith(s, p) == Len(s) >= Len(p) /\ SubSeq(s, 1, Len(p)) = p

\* str.isdigit()
isdigit(s) == Len(s) > 0 /\ \A i \in 1..Len(s) : IsDigit(s[i])

\* str.split(','): every piece, the empty ones included
RECURSIVE split(_)
split(s) ==
  LET commas == {i \in 1..Len(s) : s[i] = ","}
  IN  IF commas = {} THEN <<s>>
      ELSE LET i == CHOOSE c \in commas : \A d \in commas : c <= d
           IN  <<SubSeq(s, 1, i - 1)>> \o split(SubSeq(s, i + 1, Len(s)))

\* the value of a string of digits
RECURSIVE DigitsVal(_)
DigitsVal(s) ==
  IF s = <<>> THEN 0
  ELSE 10 * DigitsVal(SubSeq(s, 1, Len(s) - 1)) + DigitVal(s[Len(s)])

\* the digits of a natural number
RECURSIVE NatToStr(_)
NatToStr(n) ==
  IF n < 10 THEN <<Digits[n + 1]>>
  ELSE NatToStr(n \div 10) \o <<Digits[(n % 10) + 1]>>

\* str(n) of an integer
IntToStr(n) == IF n < 0 THEN <<"-">> \o NatToStr(0 - n) ELSE NatToStr(n)

\* an integer literal: optional sign, then digits
IsIntLiteral(s) ==
  \/ isdigit(s)
  \/ Len(s) > 1 /\ s[1] \in {"-", "+"} /\ isdigit(Tail(s))

IntLiteralVal(s) ==
  IF s[1] = "-" THEN 0 - DigitsVal(Tail(s))
  ELSE IF s[1] = "+" THEN DigitsVal(Tail(s))
  ELSE DigitsVal(s)

\* s < t in Python's str order
RECURSIVE StrLess(_, _)
StrLess(s, t) ==
  IF t = <<>> THEN FALSE
  ELSE IF s = <<>> THEN TRUE
  ELSE IF s[1] # t[1] THEN Ord(s[1]) < Ord(t[1])
  ELSE StrLess(Tail(s), Tail(t))

\* the letters of the model, for str.lower() and str.upper()
UpperChars ==
  << "A", "B", "C", "E", "F", "G", "L", "M", "N", "O", "R", "S", "T", "U",
     "X", "Y", "Z" >>

LowerChars ==
  << "a", "b", "c", "e", "f", "g", "l", "m", "n", "o", "r", "s", "t", "u",
     "x", "y", "z" >>

\* str.lower()
lower(s) ==
  [i \in 1..Len(s) |->
     IF \E j \in 1..Len(UpperChars) : UpperChars[j] = s[i]
     THEN LowerChars[CHOOSE j \in 1..Len(UpperChars) : UpperChars[j] = s[i]]
     ELSE s[i]]

(***************************************************************************)
(* Cells of a data frame row.  row.get(col) gives None for a column the    *)
(* CSV does not have, NaN for an empty cell, and otherwise a str (object   *)
(* column), a number (numeric column; f marks a float64 column) or a bool  *)
(* (a column of true/false words).                                         *)
(***************************************************************************)
PyNone == [k |-> "none", s |-> <<>>, n |-> 0, f |-> FALSE]

NaN == [k |-> "nan", s |-> <<>>, n |-> 0, f |-> FALSE]

Str(t) == [k |-> "str", s |-> t, n |-> 0, f |-> FALSE]

Num(i, isfloat) == [k |-> "num", s |-> <<>>, n |-> i, f |-> isfloat]

Bool(b) == [k |-> "bool", s |-> <<>>, n |-> IF b THEN 1 ELSE 0, f |-> FALSE]

\* bool(value)
Truthy(v) ==
  CASE v.k = "none" -> FALSE
    [] v.k = "nan"  -> TRUE
    [] v.k = "str"  -> v.s # <<>>
    [] v.k = "num"  -> v.n # 0
    [] v.k = "bool" -> v.n # 0

\* pd.isna(value)
isna(v) == v.k \in {"none", "nan"}

\* str(value)
PyStr(v) ==
  CASE v.k = "none" -> <<"N", "o", "n", "e">>
    [] v.k = "nan"  -> <<"n", "a", "n">>
    [] v.k = "str"  -> v.s
    [] v.k = "num"  -> IntToStr(v.n) \o (IF v.f THEN <<".", "0">> ELSE <<>>)
    [] v.k = "bool" -> IF v.n # 0 THEN <<"T", "r", "u", "e">>
                       ELSE <<"F", "a", "l", "s", "e">>

\* int(value) raises ValueError unless this holds
IntOk(v) ==
  CASE v.k = "num"  -> TRUE
    [] v.k = "bool" -> TRUE
    [] v.k = "str"  -> IsIntLiteral(strip(v.s))
    [] OTHER       -> FALSE

\* int(value)
IntVal(v) ==
  IF v.k \in {"num", "bool"} THEN v.n ELSE IntLiteralVal(strip(v.s))

\* row.get(col): None when the row has no such column
Get(row, col) == IF col \in DOMAIN row THEN row[col] ELSE PyNone

\* row.get(col, ''): the empty str when the row has no such column
GetOrEmpty(row, col) == IF col \in DOMAIN row THEN row[col] ELSE Str(<<>>)

\* pd.read_csv: an empty field is NaN; a column whose fields are all integer
\* literals or empty is numeric (float64 as soon as one field is empty); a
\* column whose fields are all true/false words or empty holds bools; any
\* other column keeps its text.  csv = [headers |-> <<..>>, rows |-> <<..>>],
\* each row a function from the headers to the text of the field.
TrueValues ==
  { <<"T", "r", "u", "e">>, <<"T", "R", "U", "E">>, <<"t", "r", "u", "e">> }

FalseValues ==
  { <<"F", "a", "l", "s", "e">>, <<"F", "A", "L", "S", "E">>,
    <<"f", "a", "l", "s", "e">> }

BoolColumn(csv, h) ==
  /\ \A i \in 1..Len(csv.rows) :
        csv.rows[i][h] \in TrueValues \cup FalseValues \cup {<<>>}
  /\ \E i \in 1..Len(csv.rows) : csv.rows[i][h] # <<>>

NumericColumn(csv, h) ==
  \A i \in 1..Len(csv.rows) :
     csv.rows[i][h] = <<>> \/ IsIntLiteral(csv.rows[i][h])

read_csv(csv) ==
  LET hs == {csv.headers[i] : i \in 1..Len(csv.headers)}
      hasEmpty(h) == \E i \in 1..Len(csv.rows) : csv.rows[i][h] = <<>>
      cell(i, h) ==
        IF csv.rows[i][h] = <<>> THEN NaN
        ELSE IF NumericColumn(csv, h)
             THEN Num(IntLiteralVal(csv.rows[i][h]), hasEmpty(h))
        ELSE IF BoolColumn(csv, h)
             THEN Bool(csv.rows[i][h] \in TrueValues)
             ELSE Str(csv.rows[i][h])
  IN  [i \in 1..Len(csv.rows) |-> [h \in hs |-> cell(i, h)]]

(***************************************************************************)
(* scripts/utils.py                                                        *)
(***************************************************************************)
clean_and_format_data(value, default) ==
  IF isna(value) \/ value = Str(<<>>) THEN default ELSE strip(PyStr(value))

(***************************************************************************)
(* scripts/column_mapper.py                                                *)
(***************************************************************************)
COLUMN_MAPPINGS ==
  [ title       |-> <<"TITLE", "title", "name", "product_name">>,
    description |-> <<"Description", "description", "body_html", "desc", "details">>,
    price       |-> <<"Price", "price", "cost", "amount", "unit_price">>,
    variants    |-> <<"variants", "variant", "size", "ml", "volume">>,
    quantity    |-> <<"NO.OF PIECES", "quantity", "stock", "inventory", "pieces">>,
    tags        |-> <<"TAGS", "tags", "tag", "keywords">>,
    vendor      |-> <<"Vendor", "vendor", "brand", "supplier", "manufacturer">>,
    category    |-> <<"Category", "category", "type", "product_type">>,
    image       |-> <<"Media Link", "image", "photo", "media", "image_url">>,
    tax         |-> <<"Charge tax on this product", "tax", "taxable">>,
    track       |-> <<"Track quantity", "track", "inventory_tracking">> ]

Fields == DOMAIN COLUMN_MAPPINGS

Range(q) == {q[i] : i \in 1..Len(q)}

\* the mapping value of a field that no column matches
NoColumn == "None"

\* next((col for col in columns if col in possible_names), None)
FirstColumnIn(columns, possible_names) ==
  LET hit == {i \in 1..Len(columns) : columns[i] \in Range(possible_names)}
  IN  IF hit = {} THEN NoColumn
      ELSE columns[CHOOSE i \in hit : \A j \in hit : i <= j]

\* a faulty mapper: it never rejects a header list
detect_csv_structure_NoCheck(columns) ==
  [ raised  |-> FALSE,
    mapping |-> [fld \in Fields |-> FirstColumnIn(columns, COLUMN_MAPPINGS[fld])] ]

\* ColumnMapper.detect_csv_structure(df, filename), columns = df.columns.tolist()
detect_csv_structure(columns) ==
  LET title_found == \E i \in 1..Len(COLUMN_MAPPINGS.title) :
                        COLUMN_MAPPINGS.title[i] \in Range(columns)
  IN  IF ~title_found
      THEN [ raised |-> TRUE, mapping |-> [fld \in Fields |-> NoColumn] ]
      ELSE [ raised  |-> FALSE,
             mapping |-> [fld \in Fields |->
                            FirstColumnIn(columns, COLUMN_MAPPINGS[fld])] ]

(***************************************************************************)
(* scripts/csv_processor.py: CSVProcessor.parse_variants_from_row          *)
(***************************************************************************)
\* [v.strip() for v in str(cell).split(',') if v.strip()]
OptionValues(cell) ==
  LET parts == split(PyStr(cell))
  IN  SelectSeq([i \in 1..Len(parts) |-> strip(parts[i])], LAMBDA v : v # <<>>)

\* the column the quantity is read from (csv_processor.py:27)
quantity_col == "inventory_quantity"

\* int(row.get(quantity_col, 1)) if quantity_col and pd.notna(row.get(quantity_col)) else 1
\* raises ValueError exactly when QuantityRaises
QuantityRaises(row) ==
  ~isna(Get(row, quantity_col)) /\ ~IntOk(Get(row, quantity_col))

\* a faulty quantity: it reads nothing and yields the default
Quantity_Default(row) == 1

Quantity(row) ==
  IF ~isna(Get(row, quantity_col)) THEN IntVal(Get(row, quantity_col)) ELSE 1

\* row[column_mapping['title']].replace(...) raises AttributeError unless the
\* cell is a str
TitleRaises(row, column_mapping) == row[column_mapping.title].k # "str"

\* float(text) succeeds on an optional sign and digits with at most one
\* point.  (float also reads exponents, underscores, "inf" and "nan"; the
\* inputs of the model hold none of these.)
IsFloatLiteral(s) ==
  LET body == IF s # <<>> /\ s[1] \in {"-", "+"} THEN Tail(s) ELSE s
  IN  /\ \A i \in 1..Len(body) : body[i] = "." \/ IsDigit(body[i])
      /\ Cardinality({i \in 1..Len(body) : body[i] = "."}) <= 1
      /\ \E i \in 1..Len(body) : IsDigit(body[i])

\* float(text) as a decimal: the number is (-1)^neg * m / 10^e
FloatVal(s) ==
  LET body   == IF s[1] \in {"-", "+"} THEN Tail(s) ELSE s
      points == {i \in 1..Len(body) : body[i] = "."}
  IN  [ neg |-> s[1] = "-",
        m   |-> DigitsVal(SelectSeq(body, LAMBDA c : c # ".")),
        e   |-> IF points = {} THEN 0
                ELSE Len(body) - (CHOOSE i \in points : TRUE) ]

RECURSIVE Pow10(_)
Pow10(e) == IF e = 0 THEN 1 ELSE 10 * Pow10(e - 1)

\* a faulty formatter: it drops the fractional digits
FormatFixed2_NoFraction(x) ==
  (IF x.neg THEN <<"-">> ELSE <<>>) \o NatToStr(x.m \div Pow10(x.e))

\* f"{x:.2f}": the number rounded to hundredths, with exactly two fractional
\* digits.  (The inputs of the model hold no number that lies exactly
\* halfway between two hundredths, where the rounding depends on the binary
\* float.)
FormatFixed2(x) ==
  LET h == IF x.e <= 2 THEN x.m * Pow10(2 - x.e)
           ELSE (2 * x.m + Pow10(x.e - 2)) \div (2 * Pow10(x.e - 2))
  IN  (IF x.neg THEN <<"-">> ELSE <<>>)
        \o NatToStr(h \div 100) \o <<".">>
        \o NatToStr((h % 100) \div 10) \o NatToStr(h % 10)

\* price_formatted (csv_processor.py:32-38, 60-66, 92-97)
Price(row, column_mapping) ==
  LET price_col == column_mapping.price
      price_raw ==
        clean_and_format_data(
          IF price_col # NoColumn THEN Get(row, price_col) ELSE Str(<<>>),
          <<"0">>)
      price_float ==
        IF IsFloatLiteral(price_raw) THEN FloatVal(price_raw)
        ELSE [neg |-> FALSE, m |-> 0, e |-> 0]
  IN  FormatFixed2(price_float)

\* str.upper()
upper(s) ==
  [i \in 1..Len(s) |->
     IF \E j \in 1..Len(LowerChars) : LowerChars[j] = s[i]
     THEN UpperChars[CHOOSE j \in 1..Len(LowerChars) : LowerChars[j] = s[i]]
     ELSE s[i]]

\* s.replace(old, new) for a one-character old
RECURSIVE replace(_, _, _)
replace(s, old, new) ==
  IF s = <<>> THEN <<>>
  ELSE (IF Head(s) = old THEN new ELSE <<Head(s)>>) \o replace(Tail(s), old, new)

\* s[:n]
Take(s, n) == SubSeq(s, 1, IF Len(s) < n THEN Len(s) ELSE n)

\* Path(filename).stem: the name without its last suffix (a name that only
\* starts with its one point has no suffix)
Stem(filename) ==
  LET points == {i \in 2..Len(filename) : filename[i] = "."}
  IN  IF points = {} THEN filename
      ELSE SubSeq(filename, 1,
                  (CHOOSE i \in points : \A j \in points : j <= i) - 1)

\* a faulty prefix: it keeps the whole stem
file_prefix_Whole(filename) ==
  upper(replace(replace(Stem(filename), "-", <<>>), "_", <<>>))

\* Path(filename).stem.replace('-', '').replace('_', '').upper()[:3]
file_prefix(filename) ==
  Take(upper(replace(replace(Stem(filename), "-", <<>>), "_", <<>>)), 3)

\* row[column_mapping['title']].replace(' ', '-').replace("'", "").upper()[:10]
title_prefix(row, column_mapping) ==
  Take(upper(replace(replace(row[column_mapping.title].s, " ", <<"-">>),
                     "'", <<>>)), 10)

\* f"{file_prefix}-{title_prefix}-{value}"
Sku(row, column_mapping, filename, value) ==
  file_prefix(filename) \o <<"-">> \o title_prefix(row, column_mapping)
    \o <<"-">> \o value

\* "{val1} / {val2}"
CrossTitle(val1, val2) == val1 \o <<" ", "/", " ">> \o val2

\* a variant dict; has_option2 tells whether the dict has the key 'option2'
Variant(title, option1, has2, option2, price, sku, quantity) ==
  [ title |-> title, option1 |-> option1, has_option2 |-> has2,
    option2 |-> option2, price |-> price, sku |-> sku,
    inventory_quantity |-> quantity,
    requires_shipping |-> TRUE, taxable |-> TRUE ]

\* which of the three branches the row takes (csv_processor.py:31, 58, 86)
Branch(row) ==
  LET option1_name   == Get(row, "Option1 Name")
      option1_values == OptionValues(GetOrEmpty(row, "Option1 Value"))
      option2_name   == Get(row, "Option2 Name")
      option2_values == OptionValues(GetOrEmpty(row, "Option2 Value"))
  IN  IF Truthy(option1_name) /\ option1_values # <<>> /\ ~Truthy(option2_name)
      THEN "option1"
      ELSE IF Truthy(option1_name) /\ option1_values # <<>>
              /\ Truthy(option2_name) /\ option2_values # <<>>
      THEN "cross"
      ELSE "fallback"

\* the result is [raised |-> TRUE, variants |-> <<>>] when the call raises
parse_variants_from_row(row, column_mapping, filename) ==
  LET option1_values == OptionValues(GetOrEmpty(row, "Option1 Value"))
      option2_values == OptionValues(GetOrEmpty(row, "Option2 Value"))
      n == Len(option1_values)
      m == Len(option2_values)
      variant_col == column_mapping.variants
      variant_size_raw ==
        clean_and_format_data(
          IF variant_col # NoColumn THEN Get(row, variant_col) ELSE Str(<<>>),
          <<"5", "0">>)
      variant_display ==
        IF isdigit(variant_size_raw) THEN variant_size_raw \o <<"m", "l">>
        ELSE variant_size_raw
  IN  IF QuantityRaises(row) \/ TitleRaises(row, column_mapping)
      THEN [ raised |-> TRUE, variants |-> <<>> ]
      ELSE [ raised |-> FALSE,
             variants |->
               CASE Branch(row) = "option1" ->
                      [i \in 1..n |->
                         Variant(option1_values[i], option1_values[i],
                                 FALSE, <<>>, Price(row, column_mapping),
                                 Sku(row, column_mapping, filename,
                                     option1_values[i]),
                                 Quantity(row))]
                 [] Branch(row) = "cross" ->
                      [k \in 1..(n * m) |->
                         LET val1 == option1_values[((k - 1) \div m) + 1]
                             val2 == option2_values[((k - 1) % m) + 1]
                         IN  Variant(CrossTitle(val1, val2), val1, TRUE, val2,
                                     Price(row, column_mapping),
                                     Sku(row, column_mapping, filename,
                                         val1 \o <<"-">> \o val2),
                                     Quantity(row))]
                 [] Branch(row) = "fallback" ->
                      << Variant(variant_display, variant_display,
                                 FALSE, <<>>, Price(row, column_mapping),
                                 Sku(row, column_mapping, filename,
                                     variant_size_raw),
                                 Quantity(row)) >> ]

(***************************************************************************)
(* scripts/csv_processor.py: CSVProcessor.prepare_product_data             *)
(***************************************************************************)
\* title.lower().replace(' ', '-').replace("'", "")
Slug(title) ==
  LET dashed == [i \in 1..Len(title) |->
                   IF lower(title)[i] = " " THEN "-" ELSE lower(title)[i]]
  IN  SelectSeq(dashed, LAMBDA c : c # "'")

\* the product dict of one row; 'variants' and 'options' are overwritten by
\* the caller (csv_processor.py:239-240), the other fields stay
prepare_product_data(row, column_mapping, filename) ==
  LET title  == clean_and_format_data(row[column_mapping.title], <<>>)
      handle == Get(row, "Handle")
      desc_col == column_mapping.description
      description ==
        clean_and_format_data(
          IF desc_col # NoColumn THEN Get(row, desc_col) ELSE Str(<<>>),
          <<"<", "p", ">">> \o title
            \o <<" ", "-", " ", "I", "m", "p", "o", "r", "t", "e", "d", " ",
                 "f", "r", "o", "m", " ">>
            \o Stem(filename) \o <<"<", "/", "p", ">">>)
  IN  [ title    |-> title,
        handle   |-> IF Truthy(handle) THEN PyStr(handle) ELSE Slug(title),
        body_html |-> description,
        status   |-> "draft",
        variants |-> parse_variants_from_row(row, column_mapping, filename).variants,
        options  |-> <<>> ]

(***************************************************************************)
(* scripts/csv_processor.py: CSVProcessor.process_csv_file                 *)
(***************************************************************************)
\* the rows that pass the three filters of lines 198-200
\* (index: the labels of the rows still in the frame, in file order)
TitleKept(cell) ==
  /\ ~isna(cell)
  /\ ~startswith(PyStr(cell), <<"#">>)
  /\ strip(PyStr(cell)) # <<>>

FilterRows(frame, index) ==
  SelectSeq(index, LAMBDA i : TitleKept(frame[i]["TITLE"]))

\* key order of groupby: numbers by value, text in str order
CellLess(a, b) == IF a.k = "num" THEN a.n < b.n ELSE StrLess(a.s, b.s)

RECURSIVE SortedCells(_)
SortedCells(S) ==
  IF S = {} THEN <<>>
  ELSE LET least == CHOOSE a \in S : \A b \in S \ {a} : CellLess(a, b)
       IN  <<least>> \o SortedCells(S \ {least})

\* the keys in the order their first rows come in the frame
RECURSIVE FirstSeenCells(_, _, _)
FirstSeenCells(frame, index, col) ==
  IF index = <<>> THEN <<>>
  ELSE LET rest == FirstSeenCells(frame, SubSeq(index, 1, Len(index) - 1), col)
           key  == frame[index[Len(index)]][col]
       IN  IF isna(key) \/ key \in Range(rest) THEN rest ELSE rest \o <<key>>

\* the rows of one key, in frame order
GroupOf(frame, index, col, key) ==
  [ key |-> key, index |-> SelectSeq(index, LAMBDA i : frame[i][col] = key) ]

\* a grouping that keeps the keys in order of appearance, as
\* groupby(col, sort=False) would
groupby_Unsorted(frame, index, col) ==
  LET keys == FirstSeenCells(frame, index, col)
  IN  [g \in 1..Len(keys) |-> GroupOf(frame, index, col, keys[g])]

\* df.groupby(col): one group per key that is not NaN, keys ascending
groupby(frame, index, col) ==
  LET keys == SortedCells({frame[i][col] : i \in Range(index)}
                            \ {c \in {frame[i][col] : i \in Range(index)} : isna(c)})
  IN  [g \in 1..Len(keys) |-> GroupOf(frame, index, col, keys[g])]

\* variants.extend(v) over the rows of a group
RECURSIVE GroupVariants(_, _, _, _)
GroupVariants(frame, idx, column_mapping, filename) ==
  IF idx = <<>> THEN <<>>
  ELSE GroupVariants(frame, SubSeq(idx, 1, Len(idx) - 1), column_mapping, filename)
         \o parse_variants_from_row(frame[idx[Len(idx)]], column_mapping, filename).variants

\* some row of the group makes parse_variants_from_row raise
GroupRaises(frame, idx, column_mapping, filename) ==
  \E i \in Range(idx) : parse_variants_from_row(frame[i], column_mapping, filename).raised

\* sorted(set of str)
RECURSIVE SortedStrs(_)
SortedStrs(S) ==
  IF S = {} THEN <<>>
  ELSE LET least == CHOOSE a \in S : \A b \in S \ {a} : StrLess(a, b)
       IN  <<least>> \o SortedStrs(S \ {least})

\* the options list of a group (csv_processor.py:213-216, 222-228, 231-236)
GroupOptions(frame, idx) ==
  LET named1 == {j \in 1..Len(idx) : Truthy(Get(frame[idx[j]], "Option1 Name"))}
      named2 == {j \in 1..Len(idx) :
                   /\ Truthy(Get(frame[idx[j]], "Option2 Name"))
                   /\ ~isna(Get(frame[idx[j]], "Option2 Value"))}
      last(J) == idx[CHOOSE j \in J : \A k \in J : k <= j]
      opt(J, ncol, vcol) ==
        IF J = {} THEN <<>>
        ELSE << [ name   |-> PyStr(Get(frame[last(J)], ncol)),
                  values |-> SortedStrs({strip(PyStr(Get(frame[idx[j]], vcol))) : j \in J}) ] >>
  IN  opt(named1, "Option1 Name", "Option1 Value")
        \o opt(named2, "Option2 Name", "Option2 Value")

\* the product of one group (csv_processor.py:211-241); source_rows records
\* which rows of the frame the product was built from
AssembleProduct(frame, group, column_mapping, filename) ==
  [ prepare_product_data(frame[group.index[1]], column_mapping, filename) EXCEPT
      !.variants = GroupVariants(frame, group.index, column_mapping, filename),
      !.options  = GroupOptions(frame, group.index) ]
    @@ [ source_rows |-> group.index ]

(***************************************************************************)
(* The input files of the model.  A family gives a header line and, for    *)
(* each column, the texts a field of that column may hold (the empty text  *)
(* is an empty field).                                                     *)
(***************************************************************************)
tAb == <<"A", "b">>
tNm == <<"N", "m">>
tHash == <<"#", "c">>
tBlank == <<" ">>
tSz == <<"S", "z">>
tFalse == <<"f", "a", "l", "s", "e">>
tFALSE == <<"F", "A", "L", "S", "E">>
tTrue == <<"t", "r", "u", "e">>
tNo == <<"n", "o">>

Families ==
  { [ headers |-> <<>>, texts |-> <<>> ],
    [ headers |-> <<"TITLE", "Handle">>,
      texts   |-> [ TITLE  |-> {<<>>, tHash, tBlank, tAb},
                    Handle |-> {<<>>, <<"a">>, <<"b">>} ] ],
    [ headers |-> <<"TITLE", "Handle", "inventory_quantity">>,
      texts   |-> [ TITLE  |-> {tHash, tAb},
                    Handle |-> {<<"a">>, <<"b">>},
                    inventory_quantity |-> {<<>>, <<"3">>, <<"-", "2">>, <<"x">>} ] ],
    [ headers |-> <<"TITLE", "Handle">>,
      texts   |-> [ TITLE  |-> {tAb},
                    Handle |-> {<<>>, <<"9">>, <<"1", "0">>} ] ],
    [ headers |-> <<"TITLE", "inventory_quantity">>,
      texts   |-> [ TITLE |-> {<<>>, tAb},
                    inventory_quantity |-> {<<"3">>} ] ],
    [ headers |-> <<"name", "Handle">>,
      texts   |-> [ name |-> {tNm}, Handle |-> {<<"a">>} ] ],
    [ headers |-> <<"name", "TITLE", "Handle">>,
      texts   |-> [ name   |-> {<<>>, tHash, tNm},
                    TITLE  |-> {tHash, tAb},
                    Handle |-> {<<"a">>, <<"b">>} ] ],
    [ headers |-> <<"TITLE", "name", "Handle">>,
      texts   |-> [ name   |-> {<<>>, tHash, tNm},
                    TITLE  |-> {tHash, tAb},
                    Handle |-> {<<"a">>, <<"b">>} ] ],
    [ headers |-> <<"TITLE", "Handle", "Option1 Name", "Option1 Value">>,
      texts   |-> [ h \in {"TITLE", "Handle", "Option1 Name", "Option1 Value"} |->
                      CASE h = "TITLE"  -> {tAb}
                        [] h = "Handle" -> {<<"a">>, <<"b">>}
                        [] h = "Option1 Name"  -> {<<>>, tSz}
                        [] h = "Option1 Value" -> {<<>>, <<"S", ",", "M">>, <<"L">>} ] ],
    [ headers |-> <<"TITLE", "Handle", "tax">>,
      texts   |-> [ TITLE  |-> {tAb},
                    Handle |-> {<<"a">>, <<"b">>},
                    tax    |-> {<<>>, tFalse, tFALSE, tTrue, tNo} ] ] }

\* every function that gives each column of cols one element of choices[col]
RECURSIVE RowsOver(_, _)
RowsOver(cols, choices) ==
  IF cols = <<>> THEN {<<>>}
  ELSE {r @@ (Head(cols) :> c) :
          r \in RowsOver(Tail(cols), choices), c \in choices[Head(cols)]}

\* the files of a family with 0..MaxRows data rows
FilesOf(fam) ==
  { [ filename |-> <<"p", "-", "1", ".", "c", "s", "v">>,
      headers  |-> fam.headers,
      rows     |-> rs ] :
    rs \in UNION {[1..n -> RowsOver(fam.headers, fam.texts)] : n \in 0..MaxRows} }

InputFiles == UNION {FilesOf(fam) : fam \in Families}

(***************************************************************************)
(* State.                                                                  *)
(***************************************************************************)
VARIABLES
  csv,                 \* the file process_csv_file is called on
  pc,                  \* where process_csv_file stands
  df,                  \* the data frame: frame (rows by label), index (labels kept)
  column_mapping,      \* the mapping of detect_csv_structure
  groups,              \* the groups of df.groupby('Handle'), in iteration order
  gi,                  \* the group the loop is at
  processed_products,  \* the products appended so far
  result,              \* what process_csv_file returned
  call,                \* a direct call of a function of the module: its arguments
  ret,                 \* and what it returned
  valid_files,         \* main: the files to handle, in order
  fi,                  \* main: the file the loop is at
  mpc,                 \* main: where main stands
  overall_results,     \* ShopifyImporter.overall_results
  file_results,        \* import_products: the results of the file being imported
  pi,                  \* import_products: the product the loop is at
  exit_status,         \* main: the exit status of the process, once it has ended
  history              \* per file handled: what process_csv_file returned
                       \* and whether import_products ran on it

vars == << csv, pc, df, column_mapping, groups, gi, processed_products,
           result, call, ret, valid_files, fi, mpc, overall_results,
           file_results, pi, exit_status, history >>

mainvars == << valid_files, fi, mpc, overall_results, file_results, pi,
               exit_status, history >>

EmptyMapping == [fld \in Fields |-> NoColumn]

\* return None
None == [ returned |-> "None", filename |-> <<>>, products |-> <<>>,
          column_mapping |-> EmptyMapping, total_rows |-> 0 ]

Pending == [None EXCEPT !.returned = "pending"]

NoCall == [fn |-> "none"]

PipelineIdle ==
  /\ pc = "idle"
  /\ csv = [filename |-> <<>>, headers |-> <<>>, rows |-> <<>>]
  /\ df = [frame |-> <<>>, index |-> <<>>]
  /\ column_mapping = EmptyMapping
  /\ groups = <<>>
  /\ gi = 0
  /\ processed_products = <<>>
  /\ result = Pending

pipeline == << csv, pc, df, column_mapping, groups, gi, processed_products, result >>

\* ShopifyImporter.__init__, lines 59-66
InitialResults ==
  [ files_processed     |-> 0,
    total_products      |-> 0,
    successful_products |-> 0,
    failed_products     |-> 0,
    skipped_products    |-> 0,
    file_results        |-> <<>> ]

NoFileResults ==
  [ filename |-> <<>>, total_products |-> 0,
    created |-> <<>>, skipped |-> <<>>, failed |-> <<>> ]

\* the process has not ended
Running == 0 - 1

\* main is not running
MainIdle ==
  /\ valid_files = <<>>
  /\ fi = 0
  /\ mpc = "idle"
  /\ overall_results = InitialResults
  /\ file_results = NoFileResults
  /\ pi = 0
  /\ exit_status = Running
  /\ history = <<>>

\* process_csv_file is about to be called on one of the input files
Init ==
  /\ csv \in InputFiles
  /\ pc = "read"
  /\ df = [frame |-> <<>>, index |-> <<>>]
  /\ column_mapping = EmptyMapping
  /\ groups = <<>>
  /\ gi = 0
  /\ processed_products = <<>>
  /\ result = Pending
  /\ call = NoCall
  /\ ret = NoCall
  /\ MainIdle

\* the except clause of lines 252-254: log, return None
Fail ==
  /\ result' = None
  /\ pc' = "done"

\* line 193: pd.read_csv; a file without a header line raises EmptyDataError
ReadCsv ==
  /\ pc = "read"
  /\ IF csv.headers = <<>>
     THEN Fail /\ UNCHANGED df
     ELSE /\ df' = [ frame |-> read_csv(csv),
                     index |-> [i \in 1..Len(csv.rows) |-> i] ]
          /\ pc' = "filter"
          /\ UNCHANGED result
  /\ UNCHANGED << csv, column_mapping, groups, gi, processed_products, call, ret, mainvars >>

\* lines 197-203: df['TITLE'] raises KeyError without such a column; an
\* empty frame returns None
FilterInvalidRows ==
  /\ pc = "filter"
  /\ IF "TITLE" \notin Range(csv.headers)
     THEN Fail /\ UNCHANGED df
     ELSE LET kept == FilterRows(df.frame, df.index)
          IN  /\ df' = [df EXCEPT !.index = kept]
              /\ IF kept = <<>> THEN Fail
                 ELSE pc' = "map" /\ UNCHANGED result
  /\ UNCHANGED << csv, column_mapping, groups, gi, processed_products, call, ret, mainvars >>

\* lines 205-207
DetectStructure ==
  /\ pc = "map"
  /\ LET m == detect_csv_structure(csv.headers)
     IN  IF m.raised
         THEN Fail /\ UNCHANGED column_mapping
         ELSE /\ column_mapping' = m.mapping
              /\ pc' = "group"
              /\ UNCHANGED result
  /\ UNCHANGED << csv, df, groups, gi, processed_products, call, ret, mainvars >>

\* a faulty step: the list of products is not emptied
GroupByHandle_NoReset ==
  /\ pc = "group"
  /\ IF "Handle" \notin Range(csv.headers)
     THEN Fail /\ UNCHANGED << groups, gi >>
     ELSE /\ groups' = groupby(df.frame, df.index, "Handle")
          /\ gi' = 1
          /\ pc' = "assemble"
          /\ UNCHANGED result
  /\ UNCHANGED << csv, df, column_mapping, processed_products, call, ret, mainvars >>

\* lines 209-210: the list of products starts empty; df.groupby('Handle')
\* raises KeyError without such a column
GroupByHandle ==
  /\ pc = "group"
  /\ IF "Handle" \notin Range(csv.headers)
     THEN Fail /\ UNCHANGED << groups, gi >>
     ELSE /\ groups' = groupby(df.frame, df.index, "Handle")
          /\ gi' = 1
          /\ pc' = "assemble"
          /\ UNCHANGED result
  /\ processed_products' = <<>>
  /\ UNCHANGED << csv, df, column_mapping, call, ret, mainvars >>

\* lines 211-241, one turn of the loop; an exception of any row leaves the
\* loop and the function through the except clause
AssembleGroup ==
  /\ pc = "assemble"
  /\ gi <= Len(groups)
  /\ IF GroupRaises(df.frame, groups[gi].index, column_mapping, csv.filename)
     THEN Fail /\ UNCHANGED << gi, processed_products >>
     ELSE /\ processed_products' =
               Append(processed_products,
                      AssembleProduct(df.frame, groups[gi], column_mapping, csv.filename))
          /\ gi' = gi + 1
          /\ UNCHANGED << pc, result >>
  /\ UNCHANGED << csv, df, column_mapping, groups, call, ret, mainvars >>

\* lines 243-250
ReturnResult ==
  /\ pc = "assemble"
  /\ gi > Len(groups)
  /\ result' = [ returned       |-> "FileResult",
                 filename       |-> csv.filename,
                 products       |-> processed_products,
                 column_mapping |-> column_mapping,
                 total_rows     |-> Len(df.index) ]
  /\ pc' = "done"
  /\ UNCHANGED << csv, df, column_mapping, groups, gi, processed_products, call, ret, mainvars >>

Next ==
  \/ ReadCsv
  \/ FilterInvalidRows
  \/ DetectStructure
  \/ GroupByHandle
  \/ AssembleGroup
  \/ ReturnResult

Spec == Init /\ [][Next]_vars

(***************************************************************************)
(* Specification SpecMain: main.py from the loop over valid_files to the   *)
(* end of the process, with ShopifyImporter.import_products.  The calls of *)
(* process_csv_file run the steps above, on the variables the last call    *)
(* left behind.                                                            *)
(***************************************************************************)
fEmpty ==
  [ filename |-> <<"p", "-", "1", ".", "c", "s", "v">>,
    headers  |-> <<>>,
    rows     |-> <<>> ]

fNoTitle ==
  [ filename |-> <<"p", "-", "1", ".", "c", "s", "v">>,
    headers  |-> <<"name", "Handle">>,
    rows     |-> << [name |-> tNm, Handle |-> <<"a">>] >> ]

fAllComments ==
  [ filename |-> <<"p", "-", "1", ".", "c", "s", "v">>,
    headers  |-> <<"TITLE", "Handle">>,
    rows     |-> << [TITLE |-> tHash, Handle |-> <<"a">>] >> ]

fOneProduct ==
  [ filename |-> <<"p", "-", "1", ".", "c", "s", "v">>,
    headers  |-> <<"TITLE", "Handle">>,
    rows     |-> << [TITLE |-> tAb, Handle |-> <<"a">>],
                    [TITLE |-> tAb, Handle |-> <<"a">>] >> ]

fTwoProducts ==
  [ filename |-> <<"a", "_", "b", "-", "c", "x", ".", "c", "s", "v">>,
    headers  |-> <<"TITLE", "Handle">>,
    rows     |-> << [TITLE |-> tAb, Handle |-> <<"a">>],
                    [TITLE |-> tNm, Handle |-> <<"b">>] >> ]

fNoHandle ==
  [ filename |-> <<"p", "-", "1", ".", "c", "s", "v">>,
    headers  |-> <<"TITLE", "Handle">>,
    rows     |-> << [TITLE |-> tAb, Handle |-> <<>>] >> ]

fBadQuantity ==
  [ filename |-> <<"p", "-", "1", ".", "c", "s", "v">>,
    headers  |-> <<"TITLE", "Handle", "inventory_quantity">>,
    rows     |-> << [TITLE |-> tAb, Handle |-> <<"a">>,
                     inventory_quantity |-> <<"x">>] >> ]

MainFiles ==
  { fEmpty, fNoTitle, fAllComments, fOneProduct, fTwoProducts, fNoHandle,
    fBadQuantity }

\* main.py:56-67: main reaches the loop with at least one file
InitMain ==
  /\ PipelineIdle
  /\ call = NoCall
  /\ ret = NoCall
  /\ valid_files \in UNION {[1..n -> MainFiles] : n \in 1..MaxFiles}
  /\ fi = 0
  /\ mpc = "loop"
  /\ overall_results = InitialResults
  /\ file_results = NoFileResults
  /\ pi = 0
  /\ exit_status = Running
  /\ history = <<>>

\* main.py:78-82: the next file of the loop; process_csv_file is called on it
NextFile ==
  /\ mpc = "loop"
  /\ fi < Len(valid_files)
  /\ fi' = fi + 1
  /\ csv' = valid_files[fi + 1]
  /\ pc' = "read"
  /\ result' = Pending
  /\ mpc' = "process"
  /\ UNCHANGED << df, column_mapping, groups, gi, processed_products, call,
                  ret, valid_files, overall_results, file_results, pi,
                  exit_status, history >>

\* a faulty main: a file that cannot be processed ends the loop
CheckProcessed_StopOnFailure ==
  /\ mpc = "process"
  /\ pc = "done"
  /\ pc' = "idle"
  /\ history' = Append(history, [returned |-> result, imported |-> FALSE])
  /\ IF result.returned = "None"
     THEN /\ mpc' = "loop"
          /\ fi' = Len(valid_files)
          /\ UNCHANGED << file_results, pi >>
     ELSE /\ file_results' = [ filename       |-> result.filename,
                               total_products |-> Len(result.products),
                               created |-> <<>>, skipped |-> <<>>,
                               failed  |-> <<>> ]
          /\ pi' = 1
          /\ mpc' = "import"
          /\ UNCHANGED fi
  /\ UNCHANGED << csv, df, column_mapping, groups, gi, processed_products,
                  result, call, ret, valid_files, overall_results,
                  exit_status >>

\* main.py:82-91 and shopify_importer.py:116-127: process_csv_file has
\* returned; None goes on with the next file, a FileResult enters
\* import_products
CheckProcessed ==
  /\ mpc = "process"
  /\ pc = "done"
  /\ pc' = "idle"
  /\ history' = Append(history, [returned |-> result, imported |-> FALSE])
  /\ IF result.returned = "None"
     THEN /\ mpc' = "loop"
          /\ UNCHANGED << file_results, pi >>
     ELSE /\ file_results' = [ filename       |-> result.filename,
                               total_products |-> Len(result.products),
                               created |-> <<>>, skipped |-> <<>>,
                               failed  |-> <<>> ]
          /\ pi' = 1
          /\ mpc' = "import"
  /\ UNCHANGED << csv, df, column_mapping, groups, gi, processed_products,
                  result, call, ret, valid_files, fi, overall_results,
                  exit_status >>

\* what create_product can return (shopify_importer.py:76-109): the shop
\* decides
Outcomes == {"created", "skipped", "failed"}

\* shopify_importer.py:129-145, one turn of the loop over the products
ImportProduct ==
  /\ mpc = "import"
  /\ pi <= Len(result.products)
  /\ \E outcome \in Outcomes :
       LET r == [ success |-> outcome # "failed", action |-> outcome,
                  title   |-> result.products[pi].title,
                  file    |-> result.filename ]
       IN  CASE outcome = "created" ->
                  /\ file_results' =
                       [file_results EXCEPT !.created = Append(@, r)]
                  /\ overall_results' =
                       [overall_results EXCEPT !.successful_products = @ + 1]
             [] outcome = "skipped" ->
                  /\ file_results' =
                       [file_results EXCEPT !.skipped = Append(@, r)]
                  /\ overall_results' =
                       [overall_results EXCEPT !.skipped_products = @ + 1]
             [] outcome = "failed" ->
                  /\ file_results' =
                       [file_results EXCEPT !.failed = Append(@, r)]
                  /\ overall_results' =
                       [overall_results EXCEPT !.failed_products = @ + 1]
  /\ pi' = pi + 1
  /\ UNCHANGED << pipeline, call, ret, valid_files, fi, mpc, exit_status,
                  history >>

\* shopify_importer.py:147-153: the end of import_products
FinishImport ==
  /\ mpc = "import"
  /\ pi > Len(result.products)
  /\ overall_results' =
       [overall_results EXCEPT
          !.files_processed = @ + 1,
          !.total_products  = @ + result.total_rows,
          !.file_results    = Append(@, file_results)]
  /\ history' = [history EXCEPT ![Len(history)].imported = TRUE]
  /\ mpc' = "loop"
  /\ UNCHANGED << pipeline, call, ret, valid_files, fi, file_results, pi,
                  exit_status >>

\* dict.get(key, default)
DictGet(d, key, default) == IF key \in DOMAIN d THEN d[key] ELSE default

\* main.py:90-99: after the loop, print_summary, then the exit status
SummaryAndExit ==
  /\ mpc = "loop"
  /\ fi = Len(valid_files)
  /\ exit_status' = IF DictGet(overall_results, "failed", 0) > 0 THEN 1 ELSE 0
  /\ mpc' = "exited"
  /\ UNCHANGED << pipeline, call, ret, valid_files, fi, overall_results,
                  file_results, pi, history >>

NextMain ==
  \/ NextFile
  \/ ReadCsv
  \/ FilterInvalidRows
  \/ DetectStructure
  \/ GroupByHandle
  \/ AssembleGroup
  \/ ReturnResult
  \/ CheckProcessed
  \/ ImportProduct
  \/ FinishImport
  \/ SummaryAndExit

SpecMain == InitMain /\ [][NextMain]_vars

(***************************************************************************)
(* Direct calls of ColumnMapper.detect_csv_structure: every list of        *)
(* 0..MaxCols different headers taken from HeaderPool.                     *)
(***************************************************************************)
HeaderPool ==
  {"TITLE", "title", "name", "product_name", "Price", "Handle", "size", "stock"}

HeaderLists ==
  UNION { {q \in [1..n -> HeaderPool] : \A i, j \in 1..n : i # j => q[i] # q[j]} :
          n \in 0..MaxCols }

InitMapper ==
  /\ PipelineIdle
  /\ call \in {[fn |-> "detect_csv_structure", columns |-> q] : q \in HeaderLists}
  /\ ret = NoCall
  /\ MainIdle

CallDetectCsvStructure ==
  /\ call.fn = "detect_csv_structure"
  /\ ret = NoCall
  /\ ret' = [fn |-> call.fn, value |-> detect_csv_structure(call.columns)]
  /\ UNCHANGED << pipeline, call, mainvars >>

SpecMapper == InitMapper /\ [][CallDetectCsvStructure]_vars

(***************************************************************************)
(* Direct calls of CSVProcessor.parse_variants_from_row on one row of a    *)
(* frame.  A cell is what read_csv can leave in it: PyNone stands for a    *)
(* column the file does not have, and the column mapping is the one        *)
(* detect_csv_structure gives for the columns the row has.                 *)
(***************************************************************************)
RowColumns ==
  << "TITLE", "inventory_quantity", "Option1 Name", "Option1 Value",
     "Option2 Name", "Option2 Value", "size" >>

CellsOf ==
  [h \in Range(RowColumns) |->
     CASE h = "TITLE" -> {Str(tAb), Num(7, FALSE)}
       [] h = "inventory_quantity" ->
            {PyNone, NaN, Num(3, FALSE), Num(0 - 2, TRUE), Str(<<"x">>), Str(<<"5">>)}
       [] h = "Option1 Name"  -> {PyNone, NaN, Str(tSz)}
       [] h = "Option1 Value" ->
            {PyNone, NaN, Str(<<"S", ",", "M">>), Str(<<"S", ",", " ", "S", ",">>),
             Str(<<",">>)}
       [] h = "Option2 Name"  -> {PyNone, NaN, Str(<<"C", "l">>)}
       [] h = "Option2 Value" -> {PyNone, NaN, Str(<<"R", ",", "G">>), Str(<<"X">>)}
       [] h = "size" -> {PyNone, NaN, Num(30, FALSE), Str(<<"X", "L">>)}]

\* the row without the columns the file does not have
Present(full) ==
  [h \in {c \in Range(RowColumns) : full[c] # PyNone} |-> full[h]]

PresentColumns(full) ==
  SelectSeq(RowColumns, LAMBDA c : full[c] # PyNone)

InputRows == RowsOver(RowColumns, CellsOf)

InitVariants ==
  /\ PipelineIdle
  /\ call \in { [ fn  |-> "parse_variants_from_row",
                  row |-> Present(full),
                  column_mapping |-> detect_csv_structure(PresentColumns(full)).mapping,
                  filename |-> <<"p", "-", "1", ".", "c", "s", "v">> ] :
                full \in InputRows }
  /\ ret = NoCall
  /\ MainIdle

CallParseVariantsFromRow ==
  /\ call.fn = "parse_variants_from_row"
  /\ ret = NoCall
  /\ ret' = [fn |-> call.fn,
             value |-> parse_variants_from_row(call.row, call.column_mapping,
                                              call.filename)]
  /\ UNCHANGED << pipeline, call, mainvars >>

SpecVariants == InitVariants /\ [][CallParseVariantsFromRow]_vars

(***************************************************************************)
(* Specification SpecPricing: direct calls of parse_variants_from_row on   *)
(* rows with a price column, for files of several names                    *)
(***************************************************************************)
tLong == << "A", "l", "'", "s", " ", "R", "o", "s", "e", " ", "g", "e", "l",
            " ", "X", "L" >>

PricedColumns ==
  << "TITLE", "Price", "Option1 Name", "Option1 Value",
     "Option2 Name", "Option2 Value", "size" >>

PricedCells ==
  [h \in Range(PricedColumns) |->
     CASE h = "TITLE" -> {Str(tAb), Str(tLong)}
       [] h = "Price" ->
            {PyNone, NaN, Num(25, FALSE), Num(25, TRUE), Bool(TRUE),
             Str(<<"9", ".", "5">>), Str(<<"0", ".", "1", "2", "9">>),
             Str(<<".", "5">>), Str(<<"-", "5">>), Str(<<"-", "0">>),
             Str(<<"x", "9">>), Str(<<"1", ",", "0">>)}
       [] h = "Option1 Name"  -> {PyNone, Str(tSz)}
       [] h = "Option1 Value" -> {PyNone, Str(<<"S", ",", "M">>)}
       [] h = "Option2 Name"  -> {PyNone, Str(<<"C", "l">>)}
       [] h = "Option2 Value" -> {PyNone, Str(<<"R", ",", "G">>)}
       [] h = "size" -> {PyNone, NaN, Num(30, FALSE), Str(<<"X", "L">>)}]

Filenames ==
  { <<"p", "-", "1", ".", "c", "s", "v">>,
    <<"a", "_", "b", "-", "c", "x", ".", "c", "s", "v">>,
    <<"a", ".", "b", " ", "c", ".", "c", "s", "v">>,
    <<"a", "b">> }

PricedRows == RowsOver(PricedColumns, PricedCells)

InitPricing ==
  /\ PipelineIdle
  /\ call \in { [ fn  |-> "parse_variants_from_row",
                  row |-> [h \in {c \in Range(PricedColumns) : full[c] # PyNone}
                             |-> full[h]],
                  column_mapping |->
                    detect_csv_structure(
                      SelectSeq(PricedColumns, LAMBDA c : full[c] # PyNone)).mapping,
                  filename |-> name ] :
                full \in PricedRows, name \in Filenames }
  /\ ret = NoCall
  /\ MainIdle

SpecPricing == InitPricing /\ [][CallParseVariantsFromRow]_vars

(***************************************************************************)
(* Properties of process_csv_file (specification Spec).                    *)
(***************************************************************************)
Done == pc = "done"

Returned == Done /\ result.returned = "FileResult"

Products == result.products

\* the frame as read, whatever the call did afterwards
Frame == read_csv(csv)

AllRows == [i \in 1..Len(csv.rows) |-> i]

HasColumn(h) == h \in Range(csv.headers)

\* the rows the filter of lines 198-200 lets through
Survivors == IF HasColumn("TITLE") THEN FilterRows(Frame, AllRows) ELSE <<>>

\* the column the Column Mapper resolves the title field to
MappedTitle == detect_csv_structure(csv.headers).mapping.title

\* no surviving row makes the Variant Builder raise
NoRowRaises ==
  \A i \in Range(Survivors) :
     ~parse_variants_from_row(Frame[i], detect_csv_structure(csv.headers).mapping,
                              csv.filename).raised

\* the Product Identity of a row: the Handle column, else the title field
Identity(i) ==
  IF HasColumn("Handle") THEN Frame[i]["Handle"] ELSE Frame[i][MappedTitle]

\* C1 (as claimed): whenever rows survive the filter (and no row fails in
\* the Variant Builder), the call returns a FileResult in which every
\* surviving row belongs to exactly one product and two rows are in the same
\* product exactly when they have the same Product Identity - the Handle
\* column when the CSV has one, the title field when it has none.
C1_GroupedByIdentity ==
  (Done /\ Survivors # <<>> /\ NoRowRaises) =>
     /\ result.returned = "FileResult"
     /\ \A i \in Range(Survivors) :
          Cardinality({p \in 1..Len(Products) :
                         i \in Range(Products[p].source_rows)}) = 1
     /\ \A i, j \in Range(Survivors) :
          (Identity(i) = Identity(j)) <=>
             (\E p \in 1..Len(Products) :
                 {i, j} \subseteq Range(Products[p].source_rows))

\* the products the groups that do not raise would give, in group order
RECURSIVE ProductsOfGoodGroups(_)
ProductsOfGoodGroups(gs) ==
  IF gs = <<>> THEN <<>>
  ELSE IF GroupRaises(df.frame, Head(gs).index, column_mapping, csv.filename)
       THEN ProductsOfGoodGroups(Tail(gs))
       ELSE <<AssembleProduct(df.frame, Head(gs), column_mapping, csv.filename)>>
              \o ProductsOfGoodGroups(Tail(gs))

\* a group raises while another one does not
OneGroupFails ==
  /\ \E g \in 1..Len(groups) : GroupRaises(df.frame, groups[g].index, column_mapping, csv.filename)
  /\ \E g \in 1..Len(groups) : ~GroupRaises(df.frame, groups[g].index, column_mapping, csv.filename)

\* C2 (as claimed): when assembling one group raises and the file has other
\* groups, the call returns a FileResult whose products are those of every
\* group that does not raise, in group order; the group that raises is the
\* only thing left out.
C2_GroupFailureIsolated ==
  (Done /\ OneGroupFails) =>
     /\ result.returned = "FileResult"
     /\ Products = ProductsOfGoodGroups(groups)

\* the rows whose title field, read in the column the mapping resolves, is
\* neither missing nor blank nor a comment
TitleSurvivors ==
  SelectSeq(AllRows, LAMBDA i : TitleKept(Frame[i][MappedTitle]))

\* C3 (as claimed): for a CSV with a title column under any synonym, the
\* rows left after filtering are exactly those whose title field is present,
\* not blank and not a comment; no product is built from any other row; and
\* when no row is left the call returns None before the Column Mapper runs
\* and with nothing assembled - and only then does it end before the mapper.
C3_FilterOnTitleField ==
  ~detect_csv_structure(csv.headers).raised =>
     /\ pc \in {"map", "group", "assemble"} => df.index = TitleSurvivors
     /\ \A p \in 1..Len(processed_products) :
          Range(processed_products[p].source_rows) \subseteq Range(TitleSurvivors)
     /\ (Done /\ TitleSurvivors = <<>>) =>
          /\ result = None
          /\ column_mapping = EmptyMapping
          /\ processed_products = <<>>
     /\ (Done /\ TitleSurvivors # <<>>) => column_mapping # EmptyMapping

\* the first row of the group a product was built from
FirstRow(p) == Products[p].source_rows[1]

\* C5 (as claimed): product A precedes product B in the result exactly when
\* the first row of A's group precedes the first row of B's group.
C5_FirstOccurrenceOrder ==
  Returned =>
     \A a, b \in 1..Len(Products) : (a < b) <=> (FirstRow(a) < FirstRow(b))

\* C5 (amended): product A precedes product B in the result exactly when
\* A's Handle is smaller than B's (text handles in str order, numeric
\* handles by value), wherever their rows stand in the file.
C5_HandleOrder ==
  Returned =>
     \A a, b \in 1..Len(Products) :
        (a < b) <=> CellLess(Frame[FirstRow(a)]["Handle"], Frame[FirstRow(b)]["Handle"])

\* C5 witness: a result of two products, the first built from a later row
\* than the second.
C5_Witness ==
  Returned /\ Len(Products) = 2 /\ FirstRow(1) > FirstRow(2)

\* the quantity written in row i of the file (1 for an empty field or a file
\* without the column)
WrittenQuantity(i) ==
  IF ~HasColumn("inventory_quantity") THEN 1
  ELSE IF csv.rows[i]["inventory_quantity"] = <<>> THEN 1
  ELSE IntLiteralVal(csv.rows[i]["inventory_quantity"])

RECURSIVE SumWritten(_)
SumWritten(idx) ==
  IF idx = <<>> THEN 0 ELSE WrittenQuantity(Head(idx)) + SumWritten(Tail(idx))

\* the file has none of the option columns
PlainFile ==
  \A h \in {"Option1 Name", "Option1 Value", "Option2 Name", "Option2 Value"} :
     ~HasColumn(h)

C10_QuantityNonNegative ==
  Returned =>
     \A p \in 1..Len(Products) :
        \A j \in 1..Len(Products[p].variants) :
           Products[p].variants[j].inventory_quantity >= 0

(***************************************************************************)
(* Properties of detect_csv_structure (specification SpecMapper).          *)
(***************************************************************************)
DetectReturned == ret.fn = "detect_csv_structure"

\* the header list holds one of the four spellings of the title column
HasTitleSynonym ==
  \E h \in {"TITLE", "title", "name", "product_name"} : h \in Range(call.columns)

\* C4: with a title synonym among the headers the call returns a mapping
\* whose title entry is one of the headers (and not absent); with none it
\* raises and returns no mapping.
C4_TitleRule ==
  DetectReturned =>
     /\ HasTitleSynonym =>
          /\ ~ret.value.raised
          /\ ret.value.mapping.title # NoColumn
          /\ ret.value.mapping.title \in Range(call.columns)
     /\ ~HasTitleSynonym => ret.value.raised

\* C4 witness: a header list without 'TITLE' but with another synonym,
\* mapped to that synonym.
C4_Witness ==
  /\ DetectReturned
  /\ "TITLE" \notin Range(call.columns)
  /\ "Price" \in Range(call.columns)
  /\ ret.value.mapping.title = "product_name"

(***************************************************************************)
(* Properties of parse_variants_from_row (specification SpecVariants).     *)
(***************************************************************************)
ParseReturned == ret.fn = "parse_variants_from_row"

\* the cell holds text (a name, or a list of values to split)
HasText(col) == Get(call.row, col).k = "str"

\* the cell is absent: the file has no such column, or the field is empty
Absent(col) == Get(call.row, col).k \in {"none", "nan"}

Values1 == OptionValues(GetOrEmpty(call.row, "Option1 Value"))

Values2 == OptionValues(GetOrEmpty(call.row, "Option2 Value"))

Variants == ret.value.variants

\* both options are given with a name and a non-empty list of values
BothOptionsGiven ==
  /\ HasText("Option1 Name") /\ HasText("Option1 Value") /\ Values1 # <<>>
  /\ HasText("Option2 Name") /\ HasText("Option2 Value") /\ Values2 # <<>>

\* the variants are the cross product, option 1 outer, option 2 inner
IsCrossProduct ==
  /\ Len(Variants) = Len(Values1) * Len(Values2)
  /\ \A i \in 1..Len(Values1) : \A j \in 1..Len(Values2) :
        LET v == Variants[(i - 1) * Len(Values2) + j]
        IN  /\ v.option1 = Values1[i]
            /\ v.has_option2 /\ v.option2 = Values2[j]
            /\ v.title = Values1[i] \o <<" ", "/", " ">> \o Values2[j]

\* the title of the row is text
TitleIsText == HasText(call.column_mapping.title)

\* C7 (as claimed): a row with both options given (and a title that is text)
\* makes the call return the n*m variants of the cross product in that order.
C7_CrossProduct ==
  (ParseReturned /\ BothOptionsGiven /\ TitleIsText) =>
     (~ret.value.raised /\ IsCrossProduct)

\* what is left of C7 when the call does return: the variants are then the
\* cross product
C7_CrossProductIfReturned ==
  (ParseReturned /\ BothOptionsGiven /\ ~ret.value.raised) => IsCrossProduct

\* option 1 is given and no option 2 name is present
OnlyOption1Given ==
  /\ HasText("Option1 Name") /\ HasText("Option1 Value") /\ Values1 # <<>>
  /\ Absent("Option2 Name")

\* one variant per option 1 value, in list order, duplicates kept
IsOption1List ==
  /\ Len(Variants) = Len(Values1)
  /\ \A i \in 1..Len(Values1) :
        /\ Variants[i].title = Values1[i]
        /\ Variants[i].option1 = Values1[i]
        /\ ~Variants[i].has_option2

\* C8 (as claimed): a row with option 1 given and no option 2 name (column
\* absent or field empty), on which the call returns, gives one variant per
\* option 1 value.
C8_Option1Only ==
  (ParseReturned /\ OnlyOption1Given /\ ~ret.value.raised) => IsOption1List

\* what is left of C8 when the file has no 'Option2 Name' column at all
C8_Option1OnlyNoColumn ==
  (ParseReturned /\ OnlyOption1Given /\ ~ret.value.raised
     /\ Get(call.row, "Option2 Name") = PyNone) => IsOption1List

\* the quantity of the row is absent or no integer can be read from it
QuantityUnusable ==
  \/ Absent(quantity_col)
  \/ HasText(quantity_col) /\ ~IsIntLiteral(strip(Get(call.row, quantity_col).s))

\* C9 (as claimed): the call never raises (here: on any row whose title is
\* text), and a row whose quantity is absent or unparsable gives variants of
\* quantity 1.
C9_NeverRaises ==
  (ParseReturned /\ TitleIsText) =>
     /\ ~ret.value.raised
     /\ QuantityUnusable =>
          \A i \in 1..Len(Variants) : Variants[i].inventory_quantity = 1

\* what is left of C9 when the quantity is absent (no column, empty field)
\* and the title is text
C9_AbsentQuantityIsOne ==
  (ParseReturned /\ Absent(quantity_col) /\ TitleIsText) =>
     /\ ~ret.value.raised
     /\ \A i \in 1..Len(Variants) : Variants[i].inventory_quantity = 1


(***************************************************************************)
(* Option definitions of a product against the option values of its        *)
(* variants (specification Spec)                                           *)
(***************************************************************************)
\* the individual option values the variants of product p carry in option
\* position k
CarriedValues(p, k) ==
  IF k = 1
  THEN {p.variants[j].option1 : j \in 1..Len(p.variants)}
  ELSE {p.variants[j].option2 :
          j \in {i \in 1..Len(p.variants) : p.variants[i].has_option2}}

NoDuplicates(q) == Cardinality(Range(q)) = Len(q)

\* C11 (as claimed): in every product of a FileResult each Option
\* Definition lists its values without duplicates, and the values of the
\* k-th definition are exactly the individual option values its variants
\* carry in position k - also when one cell supplies several
\* comma-separated values.
C11_OptionsMatchVariants ==
  Returned =>
    \A p \in Range(Products) :
      \A k \in 1..Len(p.options) :
         /\ NoDuplicates(p.options[k].values)
         /\ Range(p.options[k].values) = CarriedValues(p, k)


(***************************************************************************)
(* The taxable flag of the variants (specification Spec)                   *)
(***************************************************************************)
\* row i has a tax-flag column whose field is, ignoring case, exactly "false"
FlagSaysFalse(i) ==
  /\ column_mapping.tax # NoColumn
  /\ lower(csv.rows[i][column_mapping.tax]) = tFalse

\* C12 (as claimed): every variant has taxable = true, unless the CSV has a
\* tax-flag column whose value is case-insensitively exactly "false"; then
\* the variant has taxable = false.  (Stated per product: on the products
\* all of whose rows carry the flag "false", and on those none of whose rows
\* does.)
C12_TaxableFlag ==
  Returned =>
    \A p \in Range(Products) :
      /\ (\A i \in Range(p.source_rows) : FlagSaysFalse(i)) =>
            \A j \in 1..Len(p.variants) : ~p.variants[j].taxable
      /\ (\A i \in Range(p.source_rows) : ~FlagSaysFalse(i)) =>
            \A j \in 1..Len(p.variants) : p.variants[j].taxable

\* what the code does: taxable is true whatever the tax-flag column holds
C12_AlwaysTaxable ==
  Returned =>
    \A p \in Range(Products) :
      \A j \in 1..Len(p.variants) : p.variants[j].taxable


(***************************************************************************)
(* SKU and price of the variants (specification SpecPricing)               *)
(***************************************************************************)
\* the title of the row of the call
CallTitle == call.row[call.column_mapping.title].s

IsAlnum(c) ==
  \/ IsDigit(c)
  \/ \E j \in 1..Len(UpperChars) : c \in {UpperChars[j], LowerChars[j]}

\* T of the claim: the first 10 characters of the uppercased title with
\* spaces turned into dashes and apostrophes removed
ClaimedT ==
  Take(upper(SelectSeq([i \in 1..Len(CallTitle) |->
                          IF CallTitle[i] = " " THEN "-" ELSE CallTitle[i]],
                       LAMBDA c : c # "'")), 10)

\* V of the claim: the option value of the variant, val1-val2 when it has two
ClaimedV(v) ==
  IF v.has_option2 THEN v.option1 \o <<"-">> \o v.option2 ELSE v.option1

\* C13 (as claimed): in every branch the SKU is P-T-V, P the first 3
\* characters of the uppercased filename stem after removing every
\* non-alphanumeric character, T the first 10 characters of the uppercased
\* title with spaces replaced by dashes and apostrophes removed, V the
\* option value of the variant (val1-val2 for a cross product).
C13_SkuAsClaimed ==
  ParseReturned =>
    \A j \in 1..Len(Variants) :
      Variants[j].sku =
        Take(upper(SelectSeq(Stem(call.filename), IsAlnum)), 3)
          \o <<"-">> \o ClaimedT \o <<"-">> \o ClaimedV(Variants[j])

\* the variant-size value of the row as the fallback branch reads it: the
\* stripped text of the variant-size cell, "50" when the cell is absent
RawSize ==
  IF call.column_mapping.variants = NoColumn
       \/ isna(call.row[call.column_mapping.variants])
  THEN <<"5", "0">>
  ELSE strip(PyStr(call.row[call.column_mapping.variants]))

\* C13 (amended): the SKU is P-T-V with T as claimed, P the first 3
\* characters of the uppercased filename stem after removing only its dashes
\* and underscores (any other character stays), and V the option value of
\* the variant (val1-val2 for a cross product) except in the fallback
\* branch, where V is the variant-size value without the "ml" that the
\* option value of an all-digit size gets.
C13_SkuDerivation ==
  ParseReturned =>
    \A j \in 1..Len(Variants) :
      Variants[j].sku =
        Take(upper(SelectSeq(Stem(call.filename), LAMBDA c : c \notin {"-", "_"})), 3)
          \o <<"-">> \o ClaimedT \o <<"-">>
          \o (IF Branch(call.row) = "fallback" THEN RawSize
              ELSE ClaimedV(Variants[j]))

\* a call on a file whose stem keeps a point in its prefix, for a row that
\* takes the fallback branch with an all-digit size
C13_Witness ==
  /\ ParseReturned
  /\ call.filename = <<"a", ".", "b", " ", "c", ".", "c", "s", "v">>
  /\ Len(Variants) = 1
  /\ Variants[1].option1 = <<"3", "0", "m", "l">>
  /\ Variants[1].sku = <<"A", ".", "B", "-", "A", "L", "S", "-", "R", "O", "S",
                         "E", "-", "G", "-", "3", "0">>

\* the price cell of the row of the call is absent: no price column, or an
\* empty field
PriceAbsent ==
  \/ call.column_mapping.price = NoColumn
  \/ isna(call.row[call.column_mapping.price])

\* the text of the price cell
PriceText == strip(PyStr(call.row[call.column_mapping.price]))

\* one or more digits, a point, exactly two digits
IsFixed2(p) ==
  /\ Len(p) >= 4
  /\ p[Len(p) - 2] = "."
  /\ \A i \in 1..Len(p) : i # Len(p) - 2 => IsDigit(p[i])

FirstSynonymIn(possible_names, columns) ==
  LET hit == {i \in 1..Len(possible_names) : possible_names[i] \in Range(columns)}
  IN  IF hit = {} THEN NoColumn
      ELSE possible_names[CHOOSE i \in hit : \A j \in hit : i <= j]

\* C17 (as claimed): the mapping gives every field the earliest synonym of
\* the field's priority list that occurs among the headers, whatever the
\* order of the headers (headers name, TITLE map title to TITLE), and no
\* column when none occurs.
C17_SynonymPriority ==
  (DetectReturned /\ ~ret.value.raised) =>
     \A fld \in Fields :
        ret.value.mapping[fld] = FirstSynonymIn(COLUMN_MAPPINGS[fld], call.columns)

\* what the code does: every field gets the first header, in the order of
\* the CSV, that is one of the field's synonyms
C17_FirstHeaderWins ==
  (DetectReturned /\ ~ret.value.raised) =>
     \A fld \in Fields :
        LET hit == {i \in 1..Len(call.columns) :
                      call.columns[i] \in Range(COLUMN_MAPPINGS[fld])}
        IN  /\ hit = {} => ret.value.mapping[fld] = NoColumn
            /\ hit # {} =>
                 /\ ret.value.mapping[fld] \in {call.columns[i] : i \in hit}
                 /\ \A i \in hit :
                      \E k \in 1..i : call.columns[k] = ret.value.mapping[fld]


(***************************************************************************)
(* The loop of main over the files (specification SpecMain)                *)
(***************************************************************************)
Exited == mpc = "exited"

\* main is between two files, or has ended
BetweenFiles == mpc \in {"loop", "exited"}

\* the files handled so far whose processing failed / succeeded
FailedFiles == {i \in 1..Len(history) : history[i].returned.returned = "None"}

ProcessedFiles ==
  {i \in 1..Len(history) : history[i].returned.returned = "FileResult"}

\* process_csv_file has been called and has not returned
ProcessRunning == mpc = "process" /\ pc # "done"

\* the steps of main and of import_products
MainStep ==
  \/ NextFile
  \/ CheckProcessed
  \/ ImportProduct
  \/ FinishImport
  \/ SummaryAndExit

\* the files are taken in order, one at a time: file fi is taken up only
\* when the files before it are done with; every FileResult is the one of
\* the file at its place; a failed file is never imported; once main is
\* between two files, every file processed so far has been imported and
\* import_products has run once per such file; at the end every file has
\* been handled
C15_LoopInvariant ==
  /\ Len(history) \in {fi - 1, fi}
  /\ Len(history) = fi - 1 <=> mpc = "process"
  /\ \A i \in ProcessedFiles :
        history[i].returned.filename = valid_files[i].filename
  /\ \A i \in FailedFiles : ~history[i].imported
  /\ \A i \in ProcessedFiles : i < Len(history) => history[i].imported
  /\ BetweenFiles =>
        /\ \A i \in ProcessedFiles : history[i].imported
        /\ Len(overall_results.file_results) = Cardinality(ProcessedFiles)
  /\ Exited => Len(history) = Len(valid_files)

\* C15: main handles the files strictly one after another; a file whose
\* processing fails (None, for whatever reason) is skipped without anything
\* being imported for it, and every later file is still processed and
\* imported: the loop keeps its order and its bookkeeping at every step,
\* and whenever process_csv_file is not running, main has a next step to
\* take until it has ended (every step moves on in the product list or the
\* file list, so main gets to its end).
C15_ContinuesPastFailures ==
  /\ C15_LoopInvariant
  /\ (~Exited /\ ~ProcessRunning) => ENABLED MainStep

\* main has ended after a file that failed and a later file whose two
\* products were imported
C15_Witness ==
  /\ Exited
  /\ \E i \in FailedFiles :
       \E j \in ProcessedFiles :
          /\ i < j
          /\ history[j].imported
          /\ Len(history[j].returned.products) = 2


C18_ExitStatus ==
  Exited => (exit_status # 0 <=> overall_results.failed_products > 0)

\* what the code does: once the loop is over main ends with status 0
C18_AlwaysZero == Exited => exit_status = 0

\* the calls of import_products that have returned
ImportCalls == {i \in 1..Len(history) : history[i].imported}

\* C19 (as claimed): after any sequence of import_products calls,
\* total_products is the sum of the successful, skipped and failed products,
\* files_processed is the number of calls, and in every file result the
\* created, skipped and failed entries add up to its total_products; so the
\* successful products never exceed total_products (a success rate of at
\* most 100%).
C19_CountersConsistent ==
  BetweenFiles =>
     /\ overall_results.total_products =
          overall_results.successful_products
            + overall_results.skipped_products
            + overall_results.failed_products
     /\ overall_results.files_processed = Cardinality(ImportCalls)
     /\ \A k \in 1..Len(overall_results.file_results) :
          LET fr == overall_results.file_results[k]
          IN  Len(fr.created) + Len(fr.skipped) + Len(fr.failed) = fr.total_products
     /\ overall_results.successful_products <= overall_results.total_products

\* what the code does: total_products counts the rows of the imported files
\* (at least as many as their products); the other counters are as claimed
C19_TotalCountsRows ==
  BetweenFiles =>
     /\ overall_results.successful_products
          + overall_results.skipped_products
          + overall_results.failed_products <= overall_results.total_products
     /\ overall_results.files_processed = Cardinality(ImportCalls)
     /\ overall_results.files_processed = Len(overall_results.file_results)
     /\ \A k \in 1..Len(overall_results.file_results) :
          LET fr == overall_results.file_results[k]
          IN  Len(fr.created) + Len(fr.skipped) + Len(fr.failed) = fr.total_products

=============================================================================
